---- MODULE Spec2Model ----
(***************************************************************************)
(* Model of scripts/release.py: read_version, github_output and main.      *)
(* Strings are sequences of one-character strings.  A process run walks    *)
(* through main statement by statement; the file system, the environment   *)
(* and the manifest are the surroundings the run reads and writes.         *)
(***************************************************************************)
EXTENDS Integers, Sequences, FiniteSets, TLC

VARIABLES
    cargo,      \* the file "Cargo.toml" in the invocation directory
    environ,    \* os.environ, a function from variable names to values
    fsys,       \* the other files: a function from existing paths to content
    stdout,     \* what this process has printed
    pc,         \* position of the run inside main
    data,       \* read_version's local `data`
    version,    \* main's local `version`: <<>> before it is bound, <<v>> after
    handles,    \* the file handles that are currently open
    exitcode,   \* -1 while running, then the process exit status
    error,      \* the exception that ended the run, "" if none
    emitted,    \* the <<key, value>> pairs of the github_output calls that returned
    prior,      \* content of the output file when this run started
    initial,    \* content of the output file before the first run
    runs,       \* number of the current run (1-based)
    failures    \* how many of the runs so far ended with an exception

vars == <<cargo, environ, fsys, stdout, pc, data, version, handles, exitcode,
          error, emitted, prior, initial, runs, failures>>

(***************************************************************************)
(* Bounds                                                                  *)
(***************************************************************************)
MaxRuns == 2
MaxSuffixLen == 4

(***************************************************************************)
(* Characters and strings                                                  *)
(***************************************************************************)
Digits == <<"0", "1", "2", "3", "4", "5", "6", "7", "8", "9">>

Letters ==
    {"a","b","c","d","e","f","g","h","i","j","k","l","m","n","o","p","q","r",
     "s","t","u","v","w","x","y","z","A","B","C","D","E","F","G","H","I","J",
     "K","L","M","N","O","P","Q","R","S","T","U","V","W","X","Y","Z"}

IsDigit(c) == \E i \in 1..10 : Digits[i] = c

DigitVal(c) == (CHOOSE i \in 1..10 : Digits[i] = c) - 1

\* [0-9a-zA-Z-]
IsIdentChar(c) == IsDigit(c) \/ c \in Letters \/ c = "-"

AllDigits(s) == \A i \in 1..Len(s) : IsDigit(s[i])

\* 0|[1-9]\d*
IsNumeric(s) ==
    /\ Len(s) >= 1
    /\ AllDigits(s)
    /\ (Len(s) > 1 => s[1] # "0")

\* int(s) of a digit string
RECURSIVE ToInt(_)
ToInt(s) ==
    IF s = <<>> THEN 0
    ELSE 10 * ToInt(SubSeq(s, 1, Len(s) - 1)) + DigitVal(s[Len(s)])

\* "%d" % n
RECURSIVE ToStr(_)
ToStr(n) ==
    IF n < 10 THEN <<Digits[n + 1]>>
    ELSE Append(ToStr(n \div 10), Digits[(n % 10) + 1])

\* index of the first occurrence of c in s, 0 if there is none
IndexOf(s, c) ==
    IF \E i \in 1..Len(s) : s[i] = c
    THEN CHOOSE i \in 1..Len(s) : s[i] = c /\ \A j \in 1..(i - 1) : s[j] # c
    ELSE 0

\* s.split(".")
RECURSIVE SplitDot(_)
SplitDot(s) ==
    LET i == IndexOf(s, ".") IN
    IF i = 0 THEN <<s>>
    ELSE <<SubSeq(s, 1, i - 1)>> \o SplitDot(SubSeq(s, i + 1, Len(s)))

Chars_version == <<"v", "e", "r", "s", "i", "o", "n">>
Chars_prerelease == <<"p", "r", "e", "r", "e", "l", "e", "a", "s", "e">>
Chars_True == <<"T", "r", "u", "e">>
Chars_False == <<"F", "a", "l", "s", "e">>

\* str.lower() on the strings this program lowers
LowerChar(c) == IF c = "T" THEN "t" ELSE IF c = "F" THEN "f" ELSE c

Lower(s) == [i \in 1..Len(s) |-> LowerChar(s[i])]

(***************************************************************************)
(* semver.Version: parse and str                                           *)
(***************************************************************************)
\* An optional string: Python's None or a str
None == [some |-> FALSE, val |-> <<>>]

Some(s) == [some |-> TRUE, val |-> s]

\* bool(x) for x a str or None
Truthy(opt) == opt.some /\ opt.val # <<>>

\* 0|[1-9]\d*|\d*[a-zA-Z-][0-9a-zA-Z-]*
IsPrereleaseIdent(x) ==
    /\ Len(x) >= 1
    /\ \A i \in 1..Len(x) : IsIdentChar(x[i])
    /\ (AllDigits(x) => IsNumeric(x))

\* [0-9a-zA-Z-]+
IsBuildIdent(x) ==
    /\ Len(x) >= 1
    /\ \A i \in 1..Len(x) : IsIdentChar(x[i])

\* dot-separated prerelease identifiers
IsPrerelease(s) ==
    LET ids == SplitDot(s) IN \A i \in 1..Len(ids) : IsPrereleaseIdent(ids[i])

\* dot-separated build identifiers
IsBuild(s) ==
    LET ids == SplitDot(s) IN \A i \in 1..Len(ids) : IsBuildIdent(ids[i])

\* The groups of the version pattern: core, prerelease after the first "-"
\* of what precedes the first "+", build after the first "+".
Groups(s) ==
    LET p    == IndexOf(s, "+")
        head == IF p = 0 THEN s ELSE SubSeq(s, 1, p - 1)
        m    == IndexOf(head, "-")
    IN  [core       |-> IF m = 0 THEN head ELSE SubSeq(head, 1, m - 1),
         prerelease |-> IF m = 0 THEN None ELSE Some(SubSeq(head, m + 1, Len(head))),
         build      |-> IF p = 0 THEN None ELSE Some(SubSeq(s, p + 1, Len(s)))]

\* whether the version pattern matches the whole string
Matches(s) ==
    LET g     == Groups(s)
        parts == SplitDot(g.core)
    IN  /\ Len(parts) = 3
        /\ \A i \in 1..3 : IsNumeric(parts[i])
        /\ (g.prerelease.some => IsPrerelease(g.prerelease.val))
        /\ (g.build.some => IsBuild(g.build.val))

NoVersion == [major |-> 0, minor |-> 0, patch |-> 0, prerelease |-> None, build |-> None]

\* semver.Version.parse(s): the Version, or ValueError
Parse(s) ==
    IF ~Matches(s) THEN [err |-> "ValueError", value |-> NoVersion]
    ELSE LET g     == Groups(s)
             parts == SplitDot(g.core)
         IN  [err   |-> "",
              value |-> [major      |-> ToInt(parts[1]),
                         minor      |-> ToInt(parts[2]),
                         patch      |-> ToInt(parts[3]),
                         prerelease |-> g.prerelease,
                         build      |-> g.build]]

\* a plausible slip: the build metadata is left out of the text
VersionStr_nobuild(v) ==
    ToStr(v.major) \o <<".">> \o ToStr(v.minor) \o <<".">> \o ToStr(v.patch)
        \o (IF Truthy(v.prerelease) THEN <<"-">> \o v.prerelease.val ELSE <<>>)

\* str(version)
VersionStr(v) ==
    ToStr(v.major) \o <<".">> \o ToStr(v.minor) \o <<".">> \o ToStr(v.patch)
        \o (IF Truthy(v.prerelease) THEN <<"-">> \o v.prerelease.val ELSE <<>>)
        \o (IF Truthy(v.build) THEN <<"+">> \o v.build.val ELSE <<>>)

\* a plausible slip: .lower() forgotten
PrereleaseFlag_nolower(v) ==
    IF Truthy(v.prerelease) THEN Chars_True ELSE Chars_False

\* str(bool(version.prerelease)).lower()
PrereleaseFlag(v) ==
    Lower(IF Truthy(v.prerelease) THEN Chars_True ELSE Chars_False)

(***************************************************************************)
(* The surroundings: manifest, environment, file system                    *)
(***************************************************************************)
SeqsUpTo(S, n) == UNION {[1..k -> S] : k \in 0..n}

NumCand == {<<"0">>, <<"1">>, <<"1", "0">>, <<"0", "1">>, <<>>, <<"a">>}

Cores == {a \o <<".">> \o b \o <<".">> \o c : a \in NumCand, b \in NumCand, c \in NumCand}

SuffixChars == {"0", "a", "-", "+", "."}

BaseCore == <<"1", ".", "0", ".", "1", "0">>

Specials == {<<>>, <<"1">>, <<"1", ".", "0">>}

\* the strings the manifest's version field is drawn from
VersionStrings ==
    Cores \cup Specials \cup {BaseCore \o x : x \in SeqsUpTo(SuffixChars, MaxSuffixLen)}

\* TOML values
StrVal(s) == [type |-> "str", s |-> s]

IntVal == [type |-> "int", s |-> <<>>]

EmptyDoc == [k \in {} |-> [j \in {} |-> IntVal]]

Docs ==
    {EmptyDoc}
        \cup {[k \in {"package"} |-> [j \in {"name"} |-> StrVal(<<"a">>)]]}
        \cup {[k \in {"package"} |-> [j \in {"name", "version"} |-> IntVal]]}
        \cup {[k \in {"package"} |-> [j \in {"version"} |-> StrVal(s)]] : s \in VersionStrings}

CargoFiles ==
    {[kind |-> "missing", doc |-> EmptyDoc], [kind |-> "malformed", doc |-> EmptyDoc]}
        \cup {[kind |-> "toml", doc |-> d] : d \in Docs}

EmptyEnv == [n \in {} |-> ""]

OutPath == "/out"

RoPath == "/ro"

Environs == {EmptyEnv} \cup {[n \in {"GITHUB_OUTPUT"} |-> p] : p \in {"", OutPath, RoPath}}

File(c, w) == [content |-> c, writable |-> w]

Priors == {<<>>, <<"x", "=", "1", "\n">>}

FileSystems ==
    {[p \in {RoPath} |-> File(<<>>, FALSE)]}
        \cup {[p \in {RoPath, OutPath} |->
                 IF p = RoPath THEN File(<<>>, FALSE) ELSE File(c, TRUE)] : c \in Priors}

Content(fs, path) == IF path \in DOMAIN fs THEN fs[path].content ELSE <<>>

\* open(path, "a") succeeds: the path names something, and an existing file is writable
CanOpenAppend(fs, path) == path # "" /\ (path \in DOMAIN fs => fs[path].writable)

\* open(path, "a") creates a missing file
Opened(fs, path) ==
    IF path \in DOMAIN fs THEN fs
    ELSE [p \in DOMAIN fs \cup {path} |-> IF p = path THEN File(<<>>, TRUE) ELSE fs[p]]

Written(fs, path, text) == [fs EXCEPT ![path].content = @ \o text]

(***************************************************************************)
(* The program                                                             *)
(***************************************************************************)
KeyChars == [version |-> Chars_version, prerelease |-> Chars_prerelease]

CallPc == [version |-> "version_call", prerelease |-> "prerelease_call"]

WritePc == [version |-> "version_write", prerelease |-> "prerelease_write"]

\* f"{key}={value}"
Pair(key, value) == KeyChars[key] \o <<"=">> \o value

\* a plausible slip: print(..., end="")
PrintLine_noend(out, key, value) == out \o Pair(key, value)

\* print(f"{key}={value}")
PrintLine(out, key, value) == out \o Pair(key, value) \o <<"\n">>

\* a plausible slip: an empty value counts as unset
UseStdout_falsy(env) ==
    "GITHUB_OUTPUT" \notin DOMAIN env \/ env["GITHUB_OUTPUT"] = ""

\* "GITHUB_OUTPUT" not in os.environ
UseStdout(env) == "GITHUB_OUTPUT" \notin DOMAIN env

\* a plausible slip: the handle is left open
CloseOnExit_leak(hs, h) == hs

\* leaving a with block, normally or by an exception
CloseOnExit(hs, h) == hs \ {h}

\* a plausible slip: the two calls in the other order
MainAfter_swapped(stmt) ==
    CASE stmt = "read_version" -> "prerelease_call"
      [] stmt = "prerelease" -> "version_call"
      [] stmt = "version" -> "done"

\* the statement of main that follows stmt
MainAfter(stmt) ==
    CASE stmt = "read_version" -> "version_call"
      [] stmt = "version" -> "prerelease_call"
      [] stmt = "prerelease" -> "done"

\* a plausible slip: data.get(...) with a default instead of data[...][...]
VersionField_default(doc) ==
    IF "package" \in DOMAIN doc /\ "version" \in DOMAIN doc["package"]
    THEN [err |-> "", value |-> doc["package"]["version"]]
    ELSE [err |-> "", value |-> StrVal(<<"0", ".", "0", ".", "0">>)]

\* data["package"]["version"]
VersionField(doc) ==
    IF "package" \in DOMAIN doc /\ "version" \in DOMAIN doc["package"]
    THEN [err |-> "", value |-> doc["package"]["version"]]
    ELSE [err |-> "KeyError", value |-> IntVal]

\* lines 11-12 of read_version: the field, then semver.Version.parse
ParsedField(doc) ==
    LET f == VersionField(doc) IN
    IF f.err # "" THEN [err |-> f.err, value |-> NoVersion]
    ELSE IF f.value.type # "str" THEN [err |-> "TypeError", value |-> NoVersion]
    ELSE Parse(f.value.s)

\* an exception leaves main: the interpreter reports it and exits with status 1
Raise(e) ==
    /\ pc' = "failed"
    /\ error' = e
    /\ exitcode' = 1
    /\ failures' = failures + 1

Continue(next) ==
    /\ pc' = next
    /\ error' = error
    /\ exitcode' = IF next = "done" THEN 0 ELSE exitcode
    /\ failures' = failures

\* content of the file GITHUB_OUTPUT names, empty when there is none
Target ==
    IF "GITHUB_OUTPUT" \in DOMAIN environ
    THEN Content(fsys, environ["GITHUB_OUTPUT"])
    ELSE <<>>

Init ==
    /\ cargo \in CargoFiles
    /\ environ \in Environs
    /\ fsys \in FileSystems
    /\ stdout = <<>>
    /\ pc = "read_open"
    /\ data = EmptyDoc
    /\ version = <<>>
    /\ handles = {}
    /\ exitcode = -1
    /\ error = ""
    /\ emitted = <<>>
    /\ prior = Target
    /\ initial = Target
    /\ runs = 1
    /\ failures = 0

\* read_version, lines 7-8: data = {}; open("Cargo.toml", "rb")
ReadOpen ==
    /\ pc = "read_open"
    /\ data' = EmptyDoc
    /\ IF cargo.kind = "missing"
       THEN /\ Raise("FileNotFoundError")
            /\ handles' = handles
       ELSE /\ Continue("read_load")
            /\ handles' = handles \cup {"Cargo.toml"}
    /\ UNCHANGED <<cargo, environ, fsys, stdout, version, emitted, prior, initial, runs>>

\* read_version, line 9: data = tomllib.load(f), then the with block is left
ReadLoad ==
    /\ pc = "read_load"
    /\ handles' = CloseOnExit(handles, "Cargo.toml")
    /\ IF cargo.kind = "malformed"
       THEN /\ Raise("TOMLDecodeError")
            /\ data' = data
       ELSE /\ Continue("read_parse")
            /\ data' = cargo.doc
    /\ UNCHANGED <<cargo, environ, fsys, stdout, version, emitted, prior, initial, runs>>

\* read_version, lines 11-12, and main, line 27: version = read_version()
ReadParse ==
    /\ pc = "read_parse"
    /\ LET r == ParsedField(data) IN
       IF r.err # ""
       THEN /\ Raise(r.err)
            /\ version' = version
       ELSE /\ Continue(MainAfter("read_version"))
            /\ version' = <<r.value>>
    /\ UNCHANGED <<cargo, environ, fsys, stdout, data, handles, emitted, prior, initial, runs>>

\* a plausible slip: a failed open is caught and the pair is printed instead
GithubOutputCall_fallback(key, value) ==
    /\ pc = CallPc[key]
    /\ IF UseStdout(environ) \/ ~CanOpenAppend(fsys, environ["GITHUB_OUTPUT"])
       THEN /\ stdout' = PrintLine(stdout, key, value)
            /\ emitted' = Append(emitted, <<key, value>>)
            /\ Continue(MainAfter(key))
            /\ UNCHANGED <<fsys, handles>>
       ELSE /\ fsys' = Opened(fsys, environ["GITHUB_OUTPUT"])
            /\ handles' = handles \cup {environ["GITHUB_OUTPUT"]}
            /\ Continue(WritePc[key])
            /\ UNCHANGED <<stdout, emitted>>
    /\ UNCHANGED <<cargo, environ, data, version, prior, initial, runs>>

\* github_output, lines 16-22: print and return, or open(output, "a")
GithubOutputCall(key, value) ==
    /\ pc = CallPc[key]
    /\ IF UseStdout(environ)
       THEN /\ stdout' = PrintLine(stdout, key, value)
            /\ emitted' = Append(emitted, <<key, value>>)
            /\ Continue(MainAfter(key))
            /\ UNCHANGED <<fsys, handles>>
       ELSE LET output == environ["GITHUB_OUTPUT"] IN
            IF CanOpenAppend(fsys, output)
            THEN /\ fsys' = Opened(fsys, output)
                 /\ handles' = handles \cup {output}
                 /\ Continue(WritePc[key])
                 /\ UNCHANGED <<stdout, emitted>>
            ELSE /\ Raise("OSError")
                 /\ UNCHANGED <<fsys, handles, stdout, emitted>>
    /\ UNCHANGED <<cargo, environ, data, version, prior, initial, runs>>

\* a plausible slip: the pair is printed as well as written
GithubOutputWrite_tee(key, value) ==
    /\ pc = WritePc[key]
    /\ handles' = CloseOnExit(handles, environ["GITHUB_OUTPUT"])
    /\ \/ /\ fsys' = Written(fsys, environ["GITHUB_OUTPUT"], Pair(key, value))
          /\ stdout' = PrintLine(stdout, key, value)
          /\ emitted' = Append(emitted, <<key, value>>)
          /\ Continue(MainAfter(key))
       \/ /\ Raise("OSError")
          /\ UNCHANGED <<fsys, stdout, emitted>>
    /\ UNCHANGED <<cargo, environ, data, version, prior, initial, runs>>

\* github_output, lines 22-23: f.write(f"{key}={value}"), then the with block
\* is left.  The write may fail (the device is full, the file went away); a
\* failed write leaves the file as it was.
GithubOutputWrite(key, value) ==
    /\ pc = WritePc[key]
    /\ handles' = CloseOnExit(handles, environ["GITHUB_OUTPUT"])
    /\ \/ /\ fsys' = Written(fsys, environ["GITHUB_OUTPUT"], Pair(key, value))
          /\ emitted' = Append(emitted, <<key, value>>)
          /\ Continue(MainAfter(key))
       \/ /\ Raise("OSError")
          /\ UNCHANGED <<fsys, emitted>>
    /\ UNCHANGED <<cargo, environ, stdout, data, version, prior, initial, runs>>

\* main, line 29: github_output("version", str(version))
VersionCall == GithubOutputCall("version", VersionStr(version[1]))

VersionWrite == GithubOutputWrite("version", VersionStr(version[1]))

\* main, line 30: github_output("prerelease", str(bool(version.prerelease)).lower())
PrereleaseCall == GithubOutputCall("prerelease", PrereleaseFlag(version[1]))

PrereleaseWrite == GithubOutputWrite("prerelease", PrereleaseFlag(version[1]))

\* the pipeline runs the script again: a new process in the same surroundings
Rerun ==
    /\ pc \in {"done", "failed"}
    /\ runs < MaxRuns
    /\ runs' = runs + 1
    /\ pc' = "read_open"
    /\ stdout' = <<>>
    /\ data' = EmptyDoc
    /\ version' = <<>>
    /\ handles' = {}
    /\ exitcode' = -1
    /\ error' = ""
    /\ emitted' = <<>>
    /\ prior' = Target
    /\ UNCHANGED <<cargo, environ, fsys, initial, failures>>

Next ==
    \/ ReadOpen
    \/ ReadLoad
    \/ ReadParse
    \/ VersionCall
    \/ VersionWrite
    \/ PrereleaseCall
    \/ PrereleaseWrite
    \/ Rerun

Spec == Init /\ [][Next]_vars

(***************************************************************************)
(* Vocabulary of the properties                                            *)
(***************************************************************************)
EnvSet == "GITHUB_OUTPUT" \in DOMAIN environ

HasVersionField ==
    /\ cargo.kind = "toml"
    /\ "package" \in DOMAIN cargo.doc
    /\ "version" \in DOMAIN cargo.doc["package"]

\* the text of the manifest's package.version, <<>> if there is none
ManifestVersion ==
    IF HasVersionField /\ cargo.doc["package"]["version"].type = "str"
    THEN cargo.doc["package"]["version"].s
    ELSE <<>>

\* the manifest exists, is well formed and holds a semantic version
ValidManifest ==
    /\ HasVersionField
    /\ cargo.doc["package"]["version"].type = "str"
    /\ Matches(ManifestVersion)

\* read off the text: a "-" that no "+" precedes starts a prerelease label
HasPrereleaseText(s) ==
    \E i \in 1..Len(s) : s[i] = "-" /\ \A j \in 1..(i - 1) : s[j] # "+"

Chars_true == <<"t", "r", "u", "e">>
Chars_false == <<"f", "a", "l", "s", "e">>

ExpectedFlag == IF HasPrereleaseText(ManifestVersion) THEN Chars_true ELSE Chars_false

NewLines(s) == Cardinality({i \in 1..Len(s) : s[i] = "\n"})

EmittedKeys == [i \in 1..Len(emitted) |-> emitted[i][1]]

InRead == pc \in {"read_open", "read_load", "read_parse"}

SampleVersion == BaseCore \o <<"-", "a", "+", "0">>

(***************************************************************************)
(* C1: for every valid semantic version V in the manifest, the value       *)
(* emitted for the key version is V exactly: parsing V and formatting it   *)
(* back reproduces V, prerelease and build tags included; a finished run   *)
(* has emitted it, and on standard output the first line is version=V.     *)
(***************************************************************************)
C1_VersionRoundTrip ==
    ValidManifest =>
        /\ \A i \in 1..Len(emitted) :
               emitted[i][1] = "version" => emitted[i][2] = ManifestVersion
        /\ (pc = "done" => \E i \in 1..Len(emitted) : emitted[i][1] = "version")
        /\ (pc = "done" /\ ~EnvSet =>
               SubSeq(stdout, 1, Len(ManifestVersion) + 9)
                   = Chars_version \o <<"=">> \o ManifestVersion \o <<"\n">>)

C1_Witness ==
    /\ pc = "done"
    /\ ManifestVersion = SampleVersion
    /\ emitted[1] = <<"version", SampleVersion>>

(***************************************************************************)
(* C2: the value emitted for the key prerelease is "true" if V has a       *)
(* prerelease label and "false" otherwise, and never anything else; a      *)
(* label such as 0 counts, build metadata alone does not.                  *)
(***************************************************************************)
C2_PrereleaseFlag ==
    /\ \A i \in 1..Len(emitted) :
           emitted[i][1] = "prerelease" =>
               /\ emitted[i][2] \in {Chars_true, Chars_false}
               /\ emitted[i][2] = ExpectedFlag
    /\ (pc = "done" => \E i \in 1..Len(emitted) : emitted[i][1] = "prerelease")

C2_Witness ==
    /\ pc = "done"
    /\ ManifestVersion = BaseCore \o <<"-", "0">>
    /\ emitted[2] = <<"prerelease", Chars_true>>

C2_WitnessBuildOnly ==
    /\ pc = "done"
    /\ ManifestVersion = BaseCore \o <<"+", "a">>
    /\ emitted[2] = <<"prerelease", Chars_false>>

(***************************************************************************)
(* C3: with GITHUB_OUTPUT set to a writable path, a successful run leaves  *)
(* the file equal to its prior content followed by exactly two new lines,  *)
(* version=V and prerelease=flag, each on its own line; n successful runs  *)
(* add 2n lines.                                                           *)
(***************************************************************************)
C3_TwoLinesAppended ==
    (pc = "done" /\ EnvSet) =>
        /\ Target = prior \o Chars_version \o <<"=">> \o ManifestVersion \o <<"\n">>
                          \o Chars_prerelease \o <<"=">> \o ExpectedFlag \o <<"\n">>
        /\ (failures = 0 => NewLines(Target) = NewLines(initial) + 2 * runs)

\* what the file holds after a successful run: the two pairs with nothing between
C3_Observed ==
    (pc = "done" /\ EnvSet) =>
        /\ Target = prior \o Chars_version \o <<"=">> \o ManifestVersion
                          \o Chars_prerelease \o <<"=">> \o ExpectedFlag
        /\ NewLines(Target) = NewLines(initial)

(***************************************************************************)
(* C4: with GITHUB_OUTPUT unset, a successful run prints exactly two       *)
(* lines to standard output, version=V and then prerelease=flag.           *)
(***************************************************************************)
C4_StdoutTwoLines ==
    (pc = "done" /\ ~EnvSet) =>
        /\ stdout = Chars_version \o <<"=">> \o ManifestVersion \o <<"\n">>
                      \o Chars_prerelease \o <<"=">> \o ExpectedFlag \o <<"\n">>
        /\ NewLines(stdout) = 2

C4_Witness ==
    /\ pc = "done"
    /\ ~EnvSet
    /\ ManifestVersion = SampleVersion
    /\ NewLines(stdout) = 2

C6_FailuresPropagate ==
    /\ [](/\ (pc = "failed" <=> error # "")
          /\ (pc = "failed" => exitcode = 1)
          /\ (~ValidManifest /\ ~InRead => pc = "failed")
          /\ (cargo.kind = "missing" /\ pc # "read_open" => error = "FileNotFoundError")
          /\ (cargo.kind = "malformed" /\ pc \notin {"read_open", "read_load"}
                 => error = "TOMLDecodeError")
          /\ (EnvSet /\ ~CanOpenAppend(fsys, environ["GITHUB_OUTPUT"]) =>
                 /\ stdout = <<>>
                 /\ emitted = <<>>
                 /\ (InRead \/ pc \in {"version_call", "failed"})))
    /\ [][/\ (pc \in {"version_write", "prerelease_write"} /\ fsys' = fsys =>
                 /\ pc' = "failed"
                 /\ exitcode' = 1
                 /\ error' = "OSError"
                 /\ stdout' = stdout
                 /\ emitted' = emitted)
          /\ (pc = "failed" /\ runs' = runs => pc' = "failed" /\ exitcode' = 1)]_vars

C6_Witness ==
    /\ pc = "failed"
    /\ error = "OSError"
    /\ EnvSet
    /\ environ["GITHUB_OUTPUT"] = OutPath
    /\ EmittedKeys = <<"version">>
    /\ stdout = <<>>

(***************************************************************************)
(* C7: within a run the version pair is emitted before the prerelease      *)
(* pair: prerelease is never emitted unless version has been, so when      *)
(* emitting version fails prerelease is not emitted.                       *)
(***************************************************************************)
C7_VersionBeforePrerelease ==
    /\ EmittedKeys \in {<<>>, <<"version">>, <<"version", "prerelease">>}
    /\ (pc \in {"version_call", "version_write"} => emitted = <<>>)
    /\ (pc = "done" => EmittedKeys = <<"version", "prerelease">>)

C7_Witness ==
    /\ pc = "failed"
    /\ error = "OSError"
    /\ ValidManifest
    /\ EnvSet
    /\ environ["GITHUB_OUTPUT"] = OutPath
    /\ emitted = <<>>
    /\ runs = MaxRuns
    /\ failures = 1

(***************************************************************************)
(* C8: each file handle is opened and closed within one call, on every     *)
(* exit path: the manifest handle is open only while the manifest is being *)
(* loaded, the output handle only while a pair is being written, at most   *)
(* one handle is open at a time and none when the run has ended.           *)
(***************************************************************************)
C8_HandlesScoped ==
    /\ Cardinality(handles) <= 1
    /\ (pc \in {"done", "failed"} => handles = {})
    /\ (pc = "read_load" <=> handles = {"Cargo.toml"})
    /\ (pc \in {"version_write", "prerelease_write"}
            <=> (EnvSet /\ handles = {environ["GITHUB_OUTPUT"]}))
    /\ (pc \notin {"read_load", "version_write", "prerelease_write"} => handles = {})

C8_Witness ==
    /\ pc = "failed"
    /\ error = "TOMLDecodeError"
    /\ handles = {}

C8_WitnessWriteFailure ==
    /\ pc = "failed"
    /\ error = "OSError"
    /\ EmittedKeys = <<"version">>
    /\ handles = {}

(***************************************************************************)
(* C9: a call of github_output writes its pair to exactly one destination: *)
(* with GITHUB_OUTPUT set standard output is left unchanged, with it unset *)
(* no file is opened or modified; the manifest is never modified.          *)
(***************************************************************************)
C9_OneDestination ==
    [][/\ (pc \in {"version_call", "version_write", "prerelease_call", "prerelease_write"} =>
              /\ (EnvSet => stdout' = stdout)
              /\ (~EnvSet => fsys' = fsys /\ handles' = handles /\ handles = {})
              /\ (emitted' # emitted => ((stdout' # stdout) # (fsys' # fsys))))
       /\ cargo' = cargo]_vars

C9_Witness ==
    /\ pc = "done"
    /\ EnvSet
    /\ stdout = <<>>
    /\ Target # prior
    /\ Len(emitted) = 2

(***************************************************************************)
(* C10: the destination is chosen by the presence of GITHUB_OUTPUT, not by *)
(* its value: set to a value that cannot be opened, such as the empty      *)
(* string, the pair is not printed; the open fails and the run ends with a *)
(* non-zero status.                                                        *)
(***************************************************************************)
C10_PresenceNotValue ==
    (EnvSet /\ environ["GITHUB_OUTPUT"] \in {"", RoPath}) =>
        /\ stdout = <<>>
        /\ pc \notin {"version_write", "prerelease_call", "prerelease_write", "done"}
        /\ (ValidManifest /\ ~InRead /\ pc # "version_call" =>
               pc = "failed" /\ error = "OSError" /\ exitcode = 1)
        /\ exitcode # 0

C10_Witness ==
    /\ EnvSet
    /\ environ["GITHUB_OUTPUT"] = ""
    /\ ValidManifest
    /\ pc = "failed"
    /\ error = "OSError"
    /\ exitcode = 1
    /\ stdout = <<>>

====
